---- MODULE Spec2Model ----
(***************************************************************************)
(* The HBA API port generator of infi.hbaapi                                *)
(* (src/infi/hbaapi/generators/hbaapi/__init__.py) as a state machine:      *)
(* the adapter/port walk of HbaApi._iter_ports with the two public          *)
(* iteration modes, the per-port steps of HbaApi._get_local_port, and the   *)
(* pure translation functions they use.                                     *)
(*                                                                          *)
(* Text is modelled as sequences of one-character strings, raw WWNs as      *)
(* sequences of byte values, decoded WWNs as sequences of hex digits.       *)
(***************************************************************************)
EXTENDS Integers, Sequences, FiniteSets, TLC

(***************************************************************************)
(* Bounds of the model.                                                     *)
(***************************************************************************)
MaxAdapters == 2
MaxPorts == 2
MaxRemote == 2
MaxRows == 2
MaxStat == 1

(***************************************************************************)
(* Generic helpers on sequences.                                            *)
(***************************************************************************)
Range(s) == {s[i] : i \in 1..Len(s)}

RECURSIVE SeqsUpTo(_, _)
SeqsUpTo(S, n) ==
    IF n = 0 THEN {<<>>}
    ELSE LET shorter == SeqsUpTo(S, n - 1)
         IN shorter \cup {Append(s, x) : s \in {t \in shorter : Len(t) = n - 1}, x \in S}

RECURSIVE Concat(_)
Concat(ss) == IF ss = <<>> THEN <<>> ELSE Head(ss) \o Concat(Tail(ss))

(***************************************************************************)
(* Python str methods used by the source, on sequences of characters.       *)
(***************************************************************************)
LowerCase == <<"a","b","c","d","e","f","g","h","i","j","k","l","m",
               "n","o","p","q","r","s","t","u","v","w","x","y","z">>
UpperCase == <<"A","B","C","D","E","F","G","H","I","J","K","L","M",
               "N","O","P","Q","R","S","T","U","V","W","X","Y","Z">>
Digits == <<"0","1","2","3","4","5","6","7","8","9">>

IsLower(c) == c \in Range(LowerCase)
IsUpper(c) == c \in Range(UpperCase)
IsDigit(c) == c \in Range(Digits)
ToUpper(c) == IF IsLower(c) THEN UpperCase[CHOOSE i \in 1..26 : LowerCase[i] = c] ELSE c
ToLower(c) == IF IsUpper(c) THEN LowerCase[CHOOSE i \in 1..26 : UpperCase[i] = c] ELSE c
DigitValue(c) == (CHOOSE i \in 1..10 : Digits[i] = c) - 1

\* str.capitalize(): first character upper-cased, the rest lower-cased
StrCapitalize(s) ==
    [i \in 1..Len(s) |-> IF i = 1 THEN ToUpper(s[i]) ELSE ToLower(s[i])]

\* str.isupper(): no lower-case character and at least one upper-case one
StrIsUpper(s) ==
    /\ \A i \in 1..Len(s) : ~IsLower(s[i])
    /\ \E i \in 1..Len(s) : IsUpper(s[i])

StartsWith(s, prefix) ==
    /\ Len(s) >= Len(prefix)
    /\ SubSeq(s, 1, Len(prefix)) = prefix

\* str.replace(old, new): non-overlapping occurrences, left to right
RECURSIVE StrReplace(_, _, _)
StrReplace(s, old, new) ==
    IF s = <<>> THEN <<>>
    ELSE IF StartsWith(s, old)
         THEN new \o StrReplace(SubSeq(s, Len(old) + 1, Len(s)), old, new)
         ELSE <<Head(s)>> \o StrReplace(Tail(s), old, new)

\* str.split(sep) for a one-character separator: a sequence of words
RECURSIVE StrSplit(_, _)
StrSplit(s, sep) ==
    IF \A i \in 1..Len(s) : s[i] # sep THEN <<s>>
    ELSE LET k == CHOOSE i \in 1..Len(s) :
                      /\ s[i] = sep
                      /\ \A j \in 1..(i - 1) : s[j] # sep
         IN <<SubSeq(s, 1, k - 1)>> \o StrSplit(SubSeq(s, k + 1, Len(s)), sep)

\* bytes.strip(chars) for one character: leading and trailing runs removed
RECURSIVE StrStrip(_, _)
StrStrip(s, c) ==
    IF s = <<>> THEN s
    ELSE IF Head(s) = c THEN StrStrip(Tail(s), c)
    ELSE IF s[Len(s)] = c THEN StrStrip(SubSeq(s, 1, Len(s) - 1), c)
    ELSE s

\* str(number) for a natural number: its decimal digits
RECURSIVE Str(_)
Str(n) == IF n < 10 THEN <<Digits[n + 1]>> ELSE Str(n \div 10) \o <<Digits[(n % 10) + 1]>>

\* int(digits) for a run of decimal digits
RECURSIVE DecimalValue(_)
DecimalValue(s) ==
    IF s = <<>> THEN 0
    ELSE 10 * DecimalValue(SubSeq(s, 1, Len(s) - 1)) + DigitValue(s[Len(s)])

\* int(hex, 16) for a sequence of hex digits
RECURSIVE HexValue(_)
HexValue(h) ==
    IF h = <<>> THEN 0
    ELSE 16 * HexValue(SubSeq(h, 1, Len(h) - 1)) + h[Len(h)]

(***************************************************************************)
(* Constants of the native API (headers module) and of the source.          *)
(***************************************************************************)
HBA_STATUS_OK == 0
HBA_STATUS_ERROR == 1
HBA_STATUS_ERROR_NOT_SUPPORTED == 2
HBA_STATUS_ERROR_ILLEGAL_WWN == 5
HBA_STATUS_ERROR_MORE_DATA == 7
HBA_STATUS_ERROR_BUSY == 10

HBA_PORTSTATE_UNKNOWN == 1
HBA_PORTSTATE_ONLINE == 2
HBA_PORTSTATE_OFFLINE == 3
HBA_PORTSTATE_BYPASSED == 4
HBA_PORTSTATE_DIAGNOSTICS == 5
HBA_PORTSTATE_LINKDOWN == 6
HBA_PORTSTATE_ERROR == 7
HBA_PORTSTATE_LOOPBACK == 8

HBA_PORTSPEED_UNKNOWN == 0
HBA_PORTSPEED_1GBIT == 1
HBA_PORTSPEED_2GBIT == 2
HBA_PORTSPEED_10GBIT == 4
HBA_PORTSPEED_4GBIT == 8
HBA_PORTSPEED_8GBIT == 16
HBA_PORTSPEED_16GBIT == 32
HBA_PORTSPEED_32GBIT == 64
HBA_PORTSPEED_20GBIT == 128
HBA_PORTSPEED_40GBIT == 256
HBA_PORTSPEED_NOT_NEGOTIATED == 32768

\* headers.HBA_PORTTYPE: a mapping keyed by str(code)
HBA_PORTTYPE ==
    (Str(1) :> "Unknown") @@ (Str(2) :> "Other") @@ (Str(3) :> "Not present")
    @@ (Str(5) :> "Fabric") @@ (Str(6) :> "Public Loop") @@ (Str(7) :> "FL_Port")
    @@ (Str(8) :> "Fabric Port") @@ (Str(9) :> "Fabric expansion port")
    @@ (Str(10) :> "Generic Fabric Port") @@ (Str(20) :> "Private Loop")
    @@ (Str(21) :> "Point to Point")

\* WELL_KNOWN_FC_ADDRESSES, 0xFFFFF5 .. 0xFFFFFE, as the source lists them
WELL_KNOWN_FC_ADDRESSES ==
    << 16777205, 16777206, 16777207, 16777208, 16777209,
       16777210, 16777211, 16777212, 16777213, 16777214 >>

WwnLength == 8
Nul == "NUL"

(***************************************************************************)
(* Exceptions.  error.type = "none" means no exception is propagating.      *)
(***************************************************************************)
NoError == [type |-> "none", origin |-> "none", arg |-> 0]
RuntimeError(origin, code) == [type |-> "RuntimeError", origin |-> origin, arg |-> code]
NotImplementedError(origin) == [type |-> "NotImplementedError", origin |-> origin, arg |-> 0]
KeyError(origin, key) == [type |-> "KeyError", origin |-> origin, arg |-> key]
AttributeError(origin) == [type |-> "AttributeError", origin |-> origin, arg |-> 0]
GeneratorExit == [type |-> "GeneratorExit", origin |-> "consumer", arg |-> 0]

(***************************************************************************)
(* translate_wwn and the enum translations.                                 *)
(***************************************************************************)
Hexlify(bytes) == Concat([i \in 1..Len(bytes) |-> <<bytes[i] \div 16, bytes[i] % 16>>])

translate_wwn(source) ==
    Hexlify(IF source # <<>> THEN source ELSE [i \in 1..WwnLength |-> 0])

translate_port_type_raises(number) == Str(number) \notin DOMAIN HBA_PORTTYPE
translate_port_type(number) == HBA_PORTTYPE[Str(number)]

port_speed_translation ==
    (HBA_PORTSPEED_UNKNOWN :> 0) @@ (HBA_PORTSPEED_1GBIT :> 1)
    @@ (HBA_PORTSPEED_2GBIT :> 2) @@ (HBA_PORTSPEED_10GBIT :> 10)
    @@ (HBA_PORTSPEED_4GBIT :> 4) @@ (HBA_PORTSPEED_8GBIT :> 8)
    @@ (HBA_PORTSPEED_16GBIT :> 16) @@ (HBA_PORTSPEED_32GBIT :> 32)
    @@ (HBA_PORTSPEED_20GBIT :> 20) @@ (HBA_PORTSPEED_40GBIT :> 40)
    @@ (HBA_PORTSPEED_NOT_NEGOTIATED :> 0)

translate_port_speed(source) ==
    IF source \in DOMAIN port_speed_translation THEN port_speed_translation[source] ELSE 0

port_state_translation ==
    (HBA_PORTSTATE_UNKNOWN :> "None") @@ (HBA_PORTSTATE_ONLINE :> "online")
    @@ (HBA_PORTSTATE_OFFLINE :> "offline") @@ (HBA_PORTSTATE_BYPASSED :> "bypassed")
    @@ (HBA_PORTSTATE_DIAGNOSTICS :> "diagnostics")
    @@ (HBA_PORTSTATE_LINKDOWN :> "link down") @@ (HBA_PORTSTATE_ERROR :> "error")
    @@ (HBA_PORTSTATE_LOOPBACK :> "lookback")

translate_port_state_raises(source) == source \notin DOMAIN port_state_translation
translate_port_state(source) == port_state_translation[source]

(***************************************************************************)
(* get_port_object.  adapter_attributes None is a record whose NodeWWN is   *)
(* empty (getattr(None, "NodeWWN", None) is falsy).  The nine descriptive   *)
(* adapter strings and port_supported_speeds do not take part in any        *)
(* property and are left out of the record.                                 *)
(***************************************************************************)
NoAdapterAttributes == [NodeWWN |-> <<>>, NumberOfPorts |-> 0]

\* the exception get_port_object raises, NoError when it returns
get_port_object_error(port_attributes) ==
    IF translate_port_type_raises(port_attributes.PortType)
        THEN KeyError("port_type", port_attributes.PortType)
    ELSE IF translate_port_state_raises(port_attributes.PortState)
        THEN KeyError("port_state", port_attributes.PortState)
    ELSE NoError

get_port_object(adapter_attributes, port_attributes) ==
    [ node_wwn |-> translate_wwn(IF adapter_attributes.NodeWWN # <<>>
                                 THEN adapter_attributes.NodeWWN
                                 ELSE port_attributes.NodeWWN),
      port_wwn |-> translate_wwn(port_attributes.PortWWN),
      port_fcid |-> port_attributes.PortFcId,
      port_type |-> translate_port_type(port_attributes.PortType),
      port_state |-> translate_port_state(port_attributes.PortState),
      port_speed |-> translate_port_speed(port_attributes.PortSpeed),
      os_device_name |-> StrStrip(port_attributes.OSDeviceName, Nul),
      hct |-> <<-1, -1, -1>>,
      discovered_ports |-> <<>>,
      statistics |-> <<>>,
      all_port_mappings |-> <<>>,
      has_mappings |-> FALSE ]

(***************************************************************************)
(* _populate_local_port_hct: the trailing digit run of the device name.     *)
(***************************************************************************)
RECURSIVE TrailingDigits(_)
TrailingDigits(s) ==
    IF s = <<>> \/ ~IsDigit(s[Len(s)]) THEN <<>>
    ELSE Append(TrailingDigits(SubSeq(s, 1, Len(s) - 1)), s[Len(s)])

_populate_local_port_hct(port) ==
    LET digits == TrailingDigits(StrStrip(port.os_device_name, ":"))
    IN IF digits = <<>>
       THEN [port EXCEPT !.hct = <<-1, -1, -1>>]
       ELSE [port EXCEPT !.hct = <<DecimalValue(digits), -1, -1>>]

(***************************************************************************)
(* Statistics.  FC_PORT_STATISTICS, PortStatistics and the two native       *)
(* statistics structures are defined outside this source file; the model    *)
(* uses four link-level and two FCP counters, which cover the plain names   *)
(* and each of the three acronym overrides.  A native record is             *)
(* [present, fields]; present = FALSE stands for None.                      *)
(***************************************************************************)
FC_PORT_STATISTICS ==
    << <<"t","x","_","f","r","a","m","e","s">>,
       <<"l","i","p","_","c","o","u","n","t">>,
       <<"n","o","s","_","c","o","u","n","t">>,
       <<"i","n","v","a","l","i","d","_","c","r","c","_","c","o","u","n","t">>,
       <<"f","c","p","_","i","n","p","u","t","_","r","e","q","u","e","s","t","s">>,
       <<"f","c","p","_","c","o","n","t","r","o","l","_","r","e","q","u","e","s","t","s">> >>

HBA_PortStatistics_fields == { <<"T","x","F","r","a","m","e","s">>, <<"L","I","P","C","o","u","n","t">>, <<"N","O","S","C","o","u","n","t">>, <<"I","n","v","a","l","i","d","C","R","C","C","o","u","n","t">> }
HBA_FC4Statistics_fields == { <<"I","n","p","u","t","R","e","q","u","e","s","t","s">>, <<"C","o","n","t","r","o","l","R","e","q","u","e","s","t","s">> }

NoStatistics == [present |-> FALSE, fields |-> <<>>]

\* PortStatistics(): every canonical counter at the "not available" sentinel
PortStatistics == [name \in Range(FC_PORT_STATISTICS) |-> -1]

\* variant: the three acronym overrides are missing
hba_port_stat_name_plain(name) ==
    LET items == StrSplit(name, "_")
    IN Concat([i \in 1..Len(items) |-> StrCapitalize(items[i])])

\* the hbaapi_name computed by _merge_hba_port_stat
hba_port_stat_name(name) ==
    LET alternative_name ==
            StrReplace(StrReplace(StrReplace(name, <<"n","o","s">>, <<"N","O","S">>), <<"l","i","p">>, <<"L","I","P">>), <<"c","r","c">>, <<"C","R","C">>)
        items == StrSplit(alternative_name, "_")
    IN Concat([i \in 1..Len(items) |->
                  IF StrIsUpper(items[i]) THEN items[i] ELSE StrCapitalize(items[i])])

\* the hbaapi_name computed by _merge_hba_fcp4_stat
hba_fcp4_stat_name(name) ==
    LET items == StrSplit(StrReplace(name, <<"f","c","p","_">>, <<>>), "_")
    IN Concat([i \in 1..Len(items) |-> StrCapitalize(items[i])])

is_fcp_name(name) == StartsWith(name, <<"f","c","p","_">>)

\* getattr fails with AttributeError when the computed name is no field
_merge_statistics_raises(hba_port_stats, hba_fc4_stats) ==
    \E i \in 1..Len(FC_PORT_STATISTICS) :
        LET name == FC_PORT_STATISTICS[i]
        IN IF is_fcp_name(name)
           THEN /\ hba_fc4_stats.present
                /\ hba_fcp4_stat_name(name) \notin DOMAIN hba_fc4_stats.fields
           ELSE /\ hba_port_stats.present
                /\ hba_port_stat_name(name) \notin DOMAIN hba_port_stats.fields

_merge_statistics(port_statistics, hba_port_stats, hba_fc4_stats) ==
    [name \in (DOMAIN port_statistics) \cup Range(FC_PORT_STATISTICS) |->
        IF name \notin Range(FC_PORT_STATISTICS) THEN port_statistics[name]
        ELSE IF is_fcp_name(name)
             THEN IF ~hba_fc4_stats.present THEN -1
                  ELSE hba_fc4_stats.fields[hba_fcp4_stat_name(name)]
             ELSE IF ~hba_port_stats.present THEN -1
                  ELSE hba_port_stats.fields[hba_port_stat_name(name)]]

(***************************************************************************)
(* Mapping tables.  A table is [NumberOfEntries, entry]; a row is           *)
(* [PortWWN, ScsiBusNumber, ScsiTargetNumber, OSDeviceName, ScsiOSLun]      *)
(* (the FcId and ScsiId sub-structures flattened).                          *)
(***************************************************************************)
RECURSIVE Contains(_, _)
Contains(s, sub) ==
    IF Len(s) < Len(sub) THEN FALSE
    ELSE StartsWith(s, sub) \/ Contains(Tail(s), sub)

Aix == <<"a","i","x">>
Solaris == <<"s","o","l","a","r","i","s">>
Windows == <<"w","i","n","d","o","w","s">>

\* HBA_FCPTargetMappingV2.create_empty()
create_empty == [NumberOfEntries |-> 0, entry |-> <<>>]

\* the zero-filled row of _build_empty_mappings_struct
ZeroEntry ==
    [PortWWN |-> [i \in 1..WwnLength |-> 0], ScsiBusNumber |-> 0,
     ScsiTargetNumber |-> 0, OSDeviceName |-> <<Nul>>, ScsiOSLun |-> 0]

_build_empty_mappings_struct(number_of_elements) ==
    [NumberOfEntries |-> number_of_elements,
     entry |-> [index \in 1..number_of_elements |-> ZeroEntry]]

get_target_number(entry, platform_string) ==
    IF Contains(platform_string, Solaris) \/ Contains(platform_string, Aix)
    THEN HexValue(translate_wwn(entry.PortWWN))
    ELSE entry.ScsiTargetNumber

\* variant: rows with an empty WWN are not skipped
RECURSIVE mappings_to_dict_loop_all_rows(_, _, _)
mappings_to_dict_loop_all_rows(entries, n, platform_string) ==
    IF n = 0 THEN <<>>
    ELSE LET result == mappings_to_dict_loop_all_rows(entries, n - 1, platform_string)
             entry == entries[n]
             key == translate_wwn(entry.PortWWN)
             value == <<entry.ScsiBusNumber, get_target_number(entry, platform_string)>>
         IN [k \in (DOMAIN result) \cup {key} |-> IF k = key THEN value ELSE result[k]]

\* the loop of _mappings_to_dict over the first n rows; a later row with the
\* same WWN overwrites an earlier one
RECURSIVE mappings_to_dict_loop(_, _, _)
mappings_to_dict_loop(entries, n, platform_string) ==
    IF n = 0 THEN <<>>
    ELSE LET result == mappings_to_dict_loop(entries, n - 1, platform_string)
             entry == entries[n]
         IN IF entry.PortWWN = <<>> THEN result
            ELSE LET key == translate_wwn(entry.PortWWN)
                     value == <<entry.ScsiBusNumber, get_target_number(entry, platform_string)>>
                 IN [k \in (DOMAIN result) \cup {key} |->
                        IF k = key THEN value ELSE result[k]]

_mappings_to_dict(mappings, platform_string) ==
    mappings_to_dict_loop(mappings.entry, Len(mappings.entry), platform_string)

\* variant: a remote port without a mapping gets channel and target 0
assign_remote_hct_zero_default(port, port_mappings, platform_string) ==
    [port EXCEPT !.discovered_ports =
        [i \in 1..Len(port.discovered_ports) |->
            LET remote_port == port.discovered_ports[i]
                ct == IF Contains(platform_string, Aix)
                      THEN <<0, HexValue(remote_port.port_wwn)>>
                      ELSE IF remote_port.port_wwn \in DOMAIN port_mappings
                           THEN port_mappings[remote_port.port_wwn]
                           ELSE <<0, 0>>
            IN [remote_port EXCEPT !.hct = <<port.hct[1], ct[1], ct[2]>>]]]

\* the loop at the end of _get_local_port: the hct of every kept remote port
assign_remote_hct(port, port_mappings, platform_string) ==
    [port EXCEPT !.discovered_ports =
        [i \in 1..Len(port.discovered_ports) |->
            LET remote_port == port.discovered_ports[i]
                ct == IF Contains(platform_string, Aix)
                      THEN <<0, HexValue(remote_port.port_wwn)>>
                      ELSE IF remote_port.port_wwn \in DOMAIN port_mappings
                           THEN port_mappings[remote_port.port_wwn]
                           ELSE <<-1, -1>>
            IN [remote_port EXCEPT !.hct = <<port.hct[1], ct[1], ct[2]>>]]]

\* the tuple iter_port_mappings yields for a row with a non-empty WWN
mapping_tuple(local_port, entry) ==
    << StrSplit(entry.OSDeviceName, Nul)[1], local_port.port_wwn,
       translate_wwn(entry.PortWWN), entry.ScsiOSLun >>

(***************************************************************************)
(* State.                                                                   *)
(*   profile, mode, platform   the machine scanned, the public iterator     *)
(*                             called, get_platform_string()                *)
(*   pc, error                 position of the generator, exception that    *)
(*                             left it                                      *)
(*   loaded, freed, opens, closes   native library / adapter handle calls   *)
(*   adapter_result, yielded, reported, stat_calls, map_calls, mappings     *)
(*                             history of service replies and of yields     *)
(*   merge_in, merge_out       arguments and result of _merge_statistics    *)
(*                             when it is exercised on its own              *)
(***************************************************************************)
VARIABLES profile, mode, platform, pc, error,
          loaded, freed, opens, closes,
          number_of_adapters, adapter_index, adapter_attributes, adapter_result,
          port_index, port, number_of_remote_ports, remote_port_index, reported,
          stat_calls, map_calls, number_of_entries, mappings, port_mappings,
          entry_index, emitted, yielded, merge_in, merge_out

vars == << profile, mode, platform, pc, error, loaded, freed, opens, closes,
           number_of_adapters, adapter_index, adapter_attributes, adapter_result,
           port_index, port, number_of_remote_ports, remote_port_index, reported,
           stat_calls, map_calls, number_of_entries, mappings, port_mappings,
           entry_index, emitted, yielded, merge_in, merge_out >>

lib_vars == << loaded, freed, opens, closes >>
adapter_vars == << number_of_adapters, adapter_index, adapter_attributes, adapter_result >>
port_vars == << port, number_of_remote_ports, remote_port_index, reported,
                stat_calls, map_calls, number_of_entries, mappings, port_mappings >>
out_vars == << entry_index, emitted, yielded >>
fixed_vars == << profile, mode, platform, merge_in, merge_out >>

Adapters == 0..(MaxAdapters - 1)

(***************************************************************************)
(* Replies of the native service, per profile.  "fleet" is a machine with   *)
(* up to MaxAdapters adapters of up to MaxPorts plain ports; "single" is    *)
(* one adapter with one port whose remote ports and mapping table vary.     *)
(***************************************************************************)
NodeWWN(adapter) == <<0, 0, 0, 0, 0, 0, 32, adapter>>
LocalWWN(adapter, index) == <<0, 0, 0, 0, 0, 0, 16 + adapter, index>>
RemoteWWN(index) == <<0, 0, 0, 0, 0, 0, 1, index>>

AdapterCounts == IF profile = "fleet" THEN 0..MaxAdapters ELSE {1}
PortCounts == IF profile = "fleet" THEN 0..MaxPorts ELSE {1}

UnknownCode == 99

\* (PortType, PortState, PortSpeed, OSDeviceName) of a local port
LocalSamples ==
    IF profile = "fleet"
    THEN { <<5, HBA_PORTSTATE_ONLINE, HBA_PORTSPEED_8GBIT, <<"f","c","3">> \o <<Nul, Nul>> >>,
           <<5, UnknownCode, HBA_PORTSPEED_8GBIT, <<"f","c","3">> \o <<Nul, Nul>> >> }
    ELSE { <<5, HBA_PORTSTATE_ONLINE, HBA_PORTSPEED_8GBIT, <<"f","c","3">> \o <<Nul, Nul>> >>,
           <<21, HBA_PORTSTATE_LINKDOWN, UnknownCode, <<":","h","1","2",":">> \o <<Nul>> >>,
           <<UnknownCode, HBA_PORTSTATE_ONLINE, HBA_PORTSPEED_NOT_NEGOTIATED, <<"f","c","3">> \o <<Nul>> >>,
           <<5, UnknownCode, HBA_PORTSPEED_8GBIT, <<"f","c","3">> \o <<Nul>> >>,
           <<UnknownCode, UnknownCode, UnknownCode, <<Nul>> >> }

RemoteCounts == IF profile = "fleet" THEN {0, 1} ELSE 0..MaxRemote

PortAttributeReplies(adapter, index) ==
    { [NodeWWN |-> NodeWWN(adapter), PortWWN |-> LocalWWN(adapter, index),
       PortFcId |-> 66051, PortType |-> s[1], PortState |-> s[2],
       PortSpeed |-> s[3], OSDeviceName |-> s[4],
       NumberOfDiscoveredPorts |-> n] : s \in LocalSamples, n \in RemoteCounts }

RemoteFcIds ==
    IF profile = "fleet" THEN {16777214, 16777215}
    ELSE {16777204, 16777205, 16777214, 16777215}

RemoteStates ==
    IF profile = "fleet" THEN {HBA_PORTSTATE_ONLINE}
    ELSE {HBA_PORTSTATE_ONLINE, HBA_PORTSTATE_OFFLINE, UnknownCode}

RemotePortAttributeReplies(index) ==
    { [NodeWWN |-> RemoteWWN(index), PortWWN |-> RemoteWWN(index),
       PortFcId |-> f, PortType |-> 5, PortState |-> st,
       PortSpeed |-> HBA_PORTSPEED_8GBIT, OSDeviceName |-> <<Nul>>,
       NumberOfDiscoveredPorts |-> 0] : f \in RemoteFcIds, st \in RemoteStates }

\* replies of the statistics calls: [status, record]; status "ok",
\* "NotImplementedError" or a native failure code
LinkRecord ==
    [present |-> TRUE,
     fields |-> [f \in HBA_PortStatistics_fields |-> IF f = <<"T","x","F","r","a","m","e","s">> THEN 0 ELSE MaxStat]]
Fc4Record ==
    [present |-> TRUE,
     fields |-> [f \in HBA_FC4Statistics_fields |-> IF f = <<"I","n","p","u","t","R","e","q","u","e","s","t","s">> THEN 0 ELSE MaxStat]]

PortStatisticsReplies ==
    IF profile = "fleet"
    THEN { [status |-> "ok", code |-> HBA_STATUS_OK, record |-> LinkRecord],
           [status |-> "RuntimeError", code |-> HBA_STATUS_ERROR_NOT_SUPPORTED,
            record |-> NoStatistics] }
    ELSE { [status |-> "ok", code |-> HBA_STATUS_OK, record |-> LinkRecord] }

FC4StatisticsReplies ==
    IF profile = "fleet"
    THEN { [status |-> "ok", code |-> HBA_STATUS_OK, record |-> Fc4Record],
           [status |-> "NotImplementedError", code |-> HBA_STATUS_OK, record |-> NoStatistics],
           [status |-> "RuntimeError", code |-> HBA_STATUS_ERROR, record |-> NoStatistics] }
    ELSE { [status |-> "NotImplementedError", code |-> HBA_STATUS_OK, record |-> NoStatistics] }

\* failure codes of HBA_GetFcpTargetMappingV2
MappingFailures ==
    IF profile = "fleet"
    THEN { HBA_STATUS_ERROR_NOT_SUPPORTED, HBA_STATUS_ERROR_BUSY }
    ELSE { HBA_STATUS_ERROR, HBA_STATUS_ERROR_NOT_SUPPORTED, HBA_STATUS_ERROR_ILLEGAL_WWN,
           HBA_STATUS_ERROR_MORE_DATA, HBA_STATUS_ERROR_BUSY }

\* entry counts a "more data" reply reports
MoreDataCounts == IF profile = "fleet" THEN {1} ELSE 1..MaxRows

\* WWNs of the rows the service writes; the empty WWN marks an unused row
RowWWNs == IF profile = "fleet" THEN {RemoteWWN(0)} ELSE {<<>>, RemoteWWN(0), RemoteWWN(1)}

\* row i of a table: distinct SCSI ids per row
Row(i, wwn) ==
    [PortWWN |-> wwn, ScsiBusNumber |-> i - 1, ScsiTargetNumber |-> i + 2,
     OSDeviceName |-> <<"s", "d", Digits[i + 1], Nul, Nul>>, ScsiOSLun |-> i]

\* the tables the service may write into a buffer with room for capacity rows
Tables(capacity) ==
    { [NumberOfEntries |-> Len(w), entry |-> [i \in 1..Len(w) |-> Row(i, w[i])]] :
        w \in SeqsUpTo(RowWWNs, capacity) }

(***************************************************************************)
(* Initial states.                                                          *)
(***************************************************************************)
NoPort == get_port_object(NoAdapterAttributes,
              [NodeWWN |-> <<>>, PortWWN |-> <<>>, PortFcId |-> 0, PortType |-> 1,
               PortState |-> HBA_PORTSTATE_UNKNOWN, PortSpeed |-> HBA_PORTSPEED_UNKNOWN,
               OSDeviceName |-> <<>>, NumberOfDiscoveredPorts |-> 0])

NoMerge == [port_statistics |-> <<>>, hba_port_stats |-> NoStatistics,
            hba_fc4_stats |-> NoStatistics]

InitScan ==
    /\ error = NoError
    /\ loaded = 0 /\ freed = 0
    /\ opens = [a \in Adapters |-> 0]
    /\ closes = [a \in Adapters |-> 0]
    /\ number_of_adapters = 0
    /\ adapter_index = 0
    /\ adapter_attributes = NoAdapterAttributes
    /\ adapter_result = [a \in Adapters |-> [status |-> "none", ports |-> 0]]
    /\ port_index = 0
    /\ port = NoPort
    /\ number_of_remote_ports = 0
    /\ remote_port_index = 0
    /\ reported = <<>>
    /\ stat_calls = <<>>
    /\ map_calls = <<>>
    /\ number_of_entries = 0
    /\ mappings = create_empty
    /\ port_mappings = <<>>
    /\ entry_index = 0
    /\ emitted = <<>>
    /\ yielded = <<>>
    /\ merge_out = <<>>

Init ==
    /\ profile = "fleet"
    /\ mode \in {"ports", "mappings"}
    /\ platform = Windows
    /\ pc = "start"
    /\ merge_in = NoMerge
    /\ InitScan

InitPort ==
    /\ profile = "single"
    /\ mode \in {"ports", "mappings"}
    /\ platform \in {Windows, Solaris, Aix}
    /\ pc = "start"
    /\ merge_in = NoMerge
    /\ InitScan

\* _merge_statistics on its own: any two optional native records, merged
\* into a record that is fresh, holds stale zeros, or holds nothing yet
StatisticsRecords(fields) ==
    {NoStatistics} \cup {[present |-> TRUE, fields |-> f] : f \in [fields -> 0..MaxStat]}

InitMerge ==
    /\ profile = "merge"
    /\ mode = "ports"
    /\ platform = Windows
    /\ pc = "merge"
    /\ merge_in \in [port_statistics : {PortStatistics, <<>>,
                                         [name \in Range(FC_PORT_STATISTICS) |-> 0]},
                      hba_port_stats : StatisticsRecords(HBA_PortStatistics_fields),
                      hba_fc4_stats : StatisticsRecords(HBA_FC4Statistics_fields)]
    /\ InitScan

(***************************************************************************)
(* Exception handling of the source, as operators on the reply received.    *)
(***************************************************************************)
\* variant: a bare "except Exception" around _get_adapter_attributes
adapter_is_skipped_any(exception) == exception.type # "none"

\* HbaApi._iter_ports: the except clause around _get_adapter_attributes
adapter_is_skipped(exception) == exception.type = "NotImplementedError"

\* variant: the offline branch of the filter is missing
remote_port_is_kept_offline_too(remote_port) ==
    remote_port.port_fcid \notin Range(WELL_KNOWN_FC_ADDRESSES)

\* HbaApi._get_remote_ports: the filter applied to one remote port
remote_port_is_kept(remote_port) ==
    /\ remote_port.port_fcid \notin Range(WELL_KNOWN_FC_ADDRESSES)
    /\ remote_port.port_state # "offline"

\* variant: a hard error of HBA_GetFC4Statistics is not caught
_get_local_port_statistics_fc4_raises(link_reply, fc4_reply) ==
    IF link_reply.status = "RuntimeError"
    THEN [port_statistics |-> PortStatistics,
          calls |-> <<"HBA_GetPortStatistics">>,
          error |-> NoError]
    ELSE LET hba_port_stats == link_reply.record
             hba_fc4_stats == IF fc4_reply.status = "ok" THEN fc4_reply.record
                              ELSE NoStatistics
         IN [port_statistics |->
                 _merge_statistics(PortStatistics, hba_port_stats, hba_fc4_stats),
             calls |-> <<"HBA_GetPortStatistics", "HBA_GetFC4Statistics">>,
             error |-> IF fc4_reply.status = "RuntimeError"
                       THEN RuntimeError("HBA_GetFC4Statistics", fc4_reply.code)
                       ELSE NoError]

\* HbaApi._get_local_port_statistics on the replies of the two calls; the
\* second call is made only when the first did not fail
_get_local_port_statistics(link_reply, fc4_reply) ==
    IF link_reply.status = "RuntimeError"
    THEN [port_statistics |-> PortStatistics,
          calls |-> <<"HBA_GetPortStatistics">>,
          error |-> NoError]
    ELSE LET hba_port_stats == link_reply.record
             hba_fc4_stats == IF fc4_reply.status = "ok" THEN fc4_reply.record
                              ELSE NoStatistics
         IN [port_statistics |->
                 IF _merge_statistics_raises(hba_port_stats, hba_fc4_stats)
                 THEN PortStatistics
                 ELSE _merge_statistics(PortStatistics, hba_port_stats, hba_fc4_stats),
             calls |-> <<"HBA_GetPortStatistics", "HBA_GetFC4Statistics">>,
             error |-> IF _merge_statistics_raises(hba_port_stats, hba_fc4_stats)
                       THEN AttributeError("_merge_statistics") ELSE NoError]

\* variant: the entry count of a "more data" reply is not read
_get_local_port_mappings_count_zero(reply) == 0

\* HbaApi._get_local_port_mappings_count on the reply to the zero-capacity
\* call: [status, NumberOfEntries], the latter the first field of the buffer
_get_local_port_mappings_count(reply) ==
    IF reply.status # HBA_STATUS_OK /\ reply.status = HBA_STATUS_ERROR_MORE_DATA
    THEN reply.NumberOfEntries
    ELSE 0

\* variant: the generic error code is not among the recovered ones
_get_local_port_mappings_error_raises(reply) ==
    IF reply.status = HBA_STATUS_OK
        THEN [error |-> NoError, mappings |-> reply.table]
    ELSE IF reply.status \in {HBA_STATUS_ERROR_ILLEGAL_WWN, HBA_STATUS_ERROR_NOT_SUPPORTED,
                              HBA_STATUS_ERROR_MORE_DATA}
        THEN [error |-> NoError, mappings |-> create_empty]
    ELSE [error |-> RuntimeError("HBA_GetFcpTargetMappingV2", reply.status),
          mappings |-> create_empty]

\* HbaApi._get_local_port_mappings on the reply to the sized call:
\* [status, table]
_get_local_port_mappings(reply) ==
    IF reply.status = HBA_STATUS_OK
        THEN [error |-> NoError, mappings |-> reply.table]
    ELSE IF reply.status = HBA_STATUS_ERROR_ILLEGAL_WWN
        THEN [error |-> NoError, mappings |-> create_empty]
    ELSE IF reply.status = HBA_STATUS_ERROR_NOT_SUPPORTED
        THEN [error |-> NoError, mappings |-> create_empty]
    ELSE IF reply.status = HBA_STATUS_ERROR_MORE_DATA
        THEN [error |-> NoError, mappings |-> create_empty]
    ELSE IF reply.status = HBA_STATUS_ERROR
        THEN [error |-> NoError, mappings |-> create_empty]
    ELSE [error |-> RuntimeError("HBA_GetFcpTargetMappingV2", reply.status),
          mappings |-> create_empty]

(***************************************************************************)
(* The scan.  pc is the position of the generator _iter_ports (and of the   *)
(* public iterator around it):                                              *)
(*   start, enum, adapter   before/inside hbaapi_library, between adapters  *)
(*   attrs ... flatten       inside the hbaapi_adapter block of             *)
(*                           adapter_index                                  *)
(*   yielded                 suspended at a yield, the consumer holds the   *)
(*                           value                                          *)
(*   done, aborted, closed   the generator has finished, raised, or was     *)
(*                           closed by the consumer                         *)
(***************************************************************************)
InAdapterBlock ==
    pc \in {"attrs", "ports", "remote", "map_probe", "map_fetch", "flatten", "yielded"}

InLibraryBlock == InAdapterBlock \/ pc \in {"enum", "adapter"}

\* variant: hbaapi_adapter without its finally clause
Unwind_library_only ==
    /\ freed' = IF InLibraryBlock THEN freed + 1 ELSE freed
    /\ UNCHANGED << loaded, opens, closes >>

\* an exception (or the consumer's close) leaves the generator: the finally
\* clauses of hbaapi_adapter and hbaapi_library run, innermost first
Unwind ==
    /\ closes' = IF InAdapterBlock THEN [closes EXCEPT ![adapter_index] = @ + 1] ELSE closes
    /\ freed' = IF InLibraryBlock THEN freed + 1 ELSE freed
    /\ UNCHANGED << loaded, opens >>

ClearPort ==
    /\ port' = NoPort
    /\ number_of_remote_ports' = 0
    /\ remote_port_index' = 0
    /\ reported' = <<>>
    /\ stat_calls' = <<>>
    /\ number_of_entries' = 0
    /\ mappings' = create_empty
    /\ port_mappings' = <<>>
    /\ entry_index' = 0
    /\ emitted' = <<>>

RaiseFrom(exception, calls) ==
    /\ pc' = "aborted"
    /\ error' = exception
    /\ Unwind
    /\ ClearPort
    /\ map_calls' = calls
    /\ UNCHANGED << adapter_vars, port_index, yielded, fixed_vars >>

Raise(exception) == RaiseFrom(exception, map_calls)

\* hbaapi_library: HBA_LoadLibrary is called before the try block
LoadLibrary ==
    /\ pc = "start"
    /\ \/ /\ loaded' = loaded + 1
          /\ pc' = "enum"
          /\ UNCHANGED error
       \/ /\ pc' = "aborted"
          /\ error' = RuntimeError("HBA_LoadLibrary", HBA_STATUS_ERROR)
          /\ UNCHANGED loaded
    /\ UNCHANGED << freed, opens, closes, adapter_vars, port_index, port_vars,
                    out_vars, fixed_vars >>

\* _iter_adapters: range(0, HBA_GetNumberOfAdapters())
GetNumberOfAdapters ==
    /\ pc = "enum"
    /\ \/ \E n \in AdapterCounts :
            /\ number_of_adapters' = n
            /\ adapter_index' = 0
            /\ pc' = "adapter"
            /\ UNCHANGED << error, lib_vars, adapter_attributes, adapter_result,
                            port_index, port_vars, out_vars, fixed_vars >>
       \/ Raise(RuntimeError("HBA_GetNumberOfAdapters", HBA_STATUS_ERROR))

\* _iter_adapters yields the next name and hbaapi_adapter opens it
OpenAdapter ==
    /\ pc = "adapter"
    /\ adapter_index < number_of_adapters
    /\ \/ /\ opens' = [opens EXCEPT ![adapter_index] = @ + 1]
          /\ pc' = "attrs"
          /\ UNCHANGED << error, loaded, freed, closes, adapter_vars, port_index,
                          port_vars, out_vars, fixed_vars >>
       \/ Raise(RuntimeError("HBA_OpenAdapter", HBA_STATUS_ERROR))

\* _iter_adapters is exhausted: the library block ends
ScanDone ==
    /\ pc = "adapter"
    /\ adapter_index = number_of_adapters
    /\ freed' = freed + 1
    /\ pc' = "done"
    /\ UNCHANGED << error, loaded, opens, closes, adapter_vars, port_index,
                    port_vars, out_vars, fixed_vars >>

\* _iter_ports: _get_adapter_attributes and the except clause around it
GetAdapterAttributes ==
    /\ pc = "attrs"
    /\ \/ \E n \in PortCounts :
            /\ adapter_attributes' = [NodeWWN |-> NodeWWN(adapter_index), NumberOfPorts |-> n]
            /\ adapter_result' = [adapter_result EXCEPT ![adapter_index] =
                                      [status |-> "ok", ports |-> n]]
            /\ port_index' = 0
            /\ pc' = "ports"
            /\ UNCHANGED << error, lib_vars, number_of_adapters, adapter_index,
                            port_vars, out_vars, fixed_vars >>
       \/ \E exception \in { NotImplementedError("HBA_GetAdapterAttributes"),
                             RuntimeError("HBA_GetAdapterAttributes", HBA_STATUS_ERROR) } :
            IF adapter_is_skipped(exception)
            THEN /\ closes' = [closes EXCEPT ![adapter_index] = @ + 1]
                 /\ adapter_result' = [adapter_result EXCEPT ![adapter_index] =
                                           [status |-> exception.type, ports |-> 0]]
                 /\ adapter_index' = adapter_index + 1
                 /\ pc' = "adapter"
                 /\ UNCHANGED << error, loaded, freed, opens, number_of_adapters,
                                 adapter_attributes, port_index, port_vars, out_vars,
                                 fixed_vars >>
            ELSE /\ pc' = "aborted"
                 /\ error' = exception
                 /\ Unwind
                 /\ adapter_result' = [adapter_result EXCEPT ![adapter_index] =
                                           [status |-> exception.type, ports |-> 0]]
                 /\ UNCHANGED << number_of_adapters, adapter_index, adapter_attributes,
                                 port_index, port_vars, out_vars, fixed_vars >>

\* variant: the adapter block ends without HBA_CloseAdapter
AdapterDone_handle_left_open ==
    /\ pc = "ports"
    /\ port_index = adapter_attributes.NumberOfPorts
    /\ adapter_index' = adapter_index + 1
    /\ pc' = "adapter"
    /\ UNCHANGED << error, lib_vars, number_of_adapters, adapter_attributes,
                    adapter_result, port_index, port_vars, out_vars, fixed_vars >>

\* the port loop of _iter_ports is exhausted: the adapter block ends
AdapterDone ==
    /\ pc = "ports"
    /\ port_index = adapter_attributes.NumberOfPorts
    /\ closes' = [closes EXCEPT ![adapter_index] = @ + 1]
    /\ adapter_index' = adapter_index + 1
    /\ pc' = "adapter"
    /\ UNCHANGED << error, loaded, freed, opens, number_of_adapters, adapter_attributes,
                    adapter_result, port_index, port_vars, out_vars, fixed_vars >>

\* _get_local_port up to the call of _get_remote_ports
GetPortAttributes ==
    /\ pc = "ports"
    /\ port_index < adapter_attributes.NumberOfPorts
    /\ \/ \E port_attributes \in PortAttributeReplies(adapter_index, port_index) :
            IF get_port_object_error(port_attributes) # NoError
            THEN Raise(get_port_object_error(port_attributes))
            ELSE /\ port' = _populate_local_port_hct(
                                get_port_object(adapter_attributes, port_attributes))
                 /\ number_of_remote_ports' = port_attributes.NumberOfDiscoveredPorts
                 /\ remote_port_index' = 0
                 /\ reported' = <<>>
                 /\ pc' = "remote"
                 /\ UNCHANGED << error, lib_vars, adapter_vars, port_index, stat_calls,
                                 map_calls, number_of_entries, mappings, port_mappings,
                                 out_vars, fixed_vars >>
       \/ Raise(RuntimeError("HBA_GetAdapterPortAttributes", HBA_STATUS_ERROR))

\* one iteration of the loop of _get_remote_ports
GetRemotePort ==
    /\ pc = "remote"
    /\ remote_port_index < number_of_remote_ports
    /\ \/ \E remote_port_attributes \in RemotePortAttributeReplies(remote_port_index) :
            IF get_port_object_error(remote_port_attributes) # NoError
            THEN Raise(get_port_object_error(remote_port_attributes))
            ELSE LET remote_port == get_port_object(NoAdapterAttributes, remote_port_attributes)
                 IN /\ port' = IF remote_port_is_kept(remote_port)
                               THEN [port EXCEPT !.discovered_ports = Append(@, remote_port)]
                               ELSE port
                    /\ reported' = Append(reported, remote_port_attributes)
                    /\ remote_port_index' = remote_port_index + 1
                    /\ UNCHANGED << pc, error, lib_vars, adapter_vars, port_index,
                                    number_of_remote_ports, stat_calls, map_calls,
                                    number_of_entries, mappings, port_mappings,
                                    out_vars, fixed_vars >>
       \/ Raise(RuntimeError("HBA_GetDiscoveredPortAttributes", HBA_STATUS_ERROR))

\* _get_remote_ports returns; _get_local_port_statistics
GetStatistics ==
    /\ pc = "remote"
    /\ remote_port_index = number_of_remote_ports
    /\ \E link_reply \in PortStatisticsReplies, fc4_reply \in FC4StatisticsReplies :
         LET result == _get_local_port_statistics(link_reply, fc4_reply)
         IN IF result.error # NoError
            THEN Raise(result.error)
            ELSE /\ port' = [port EXCEPT !.statistics = result.port_statistics]
                 /\ stat_calls' =
                        [i \in 1..Len(result.calls) |->
                            [call |-> result.calls[i],
                             status |-> IF i = 1 THEN link_reply.status ELSE fc4_reply.status]]
                 /\ reported' = <<>>
                 /\ pc' = "map_probe"
                 /\ UNCHANGED << error, lib_vars, adapter_vars, port_index,
                                 number_of_remote_ports, remote_port_index, map_calls,
                                 number_of_entries, mappings, port_mappings,
                                 out_vars, fixed_vars >>

\* _get_local_port_mappings_count: the call with a zero-capacity buffer
GetMappingsCount ==
    /\ pc = "map_probe"
    /\ \E reply \in
            { [status |-> HBA_STATUS_OK, NumberOfEntries |-> 0] }
            \cup { [status |-> HBA_STATUS_ERROR_MORE_DATA, NumberOfEntries |-> c] :
                      c \in MoreDataCounts }
            \cup { [status |-> f, NumberOfEntries |-> c] :
                      f \in MappingFailures \ {HBA_STATUS_ERROR_MORE_DATA},
                      c \in {0} \cup MoreDataCounts } :
         /\ number_of_entries' = _get_local_port_mappings_count(reply)
         /\ map_calls' = << [capacity |-> _build_empty_mappings_struct(0).NumberOfEntries,
                             status |-> reply.status,
                             NumberOfEntries |-> reply.NumberOfEntries] >>
    /\ pc' = "map_fetch"
    /\ UNCHANGED << error, lib_vars, adapter_vars, port_index, port,
                    number_of_remote_ports, remote_port_index, reported, stat_calls,
                    mappings, port_mappings, out_vars, fixed_vars >>

\* the public iterator receives the local port from _iter_ports
Deliver(local_port) ==
    /\ yielded' = Append(yielded, <<adapter_index, port_index>>)
    /\ emitted' = <<>>
    /\ IF mode = "ports"
       THEN \* iter_ports: pop all_port_mappings, yield the port
            /\ port' = [local_port EXCEPT !.all_port_mappings = <<>>, !.has_mappings = FALSE]
            /\ entry_index' = 0
            /\ pc' = "yielded"
       ELSE \* iter_port_mappings: start the loop over the rows
            /\ port' = local_port
            /\ entry_index' = 1
            /\ pc' = "flatten"

\* _get_local_port_mappings: the sized call, then the rest of _get_local_port
\* and the yield of _iter_ports
GetMappings ==
    /\ pc = "map_fetch"
    /\ LET struct == _build_empty_mappings_struct(number_of_entries)
           capacity == Len(struct.entry)
       IN \E reply \in
               { [status |-> HBA_STATUS_OK, table |-> t] : t \in Tables(capacity) }
               \cup { [status |-> f, table |-> struct] : f \in MappingFailures } :
            LET result == _get_local_port_mappings(reply)
                call == [capacity |-> capacity, status |-> reply.status,
                         NumberOfEntries |-> reply.table.NumberOfEntries]
            IN IF result.error # NoError
               THEN RaiseFrom(result.error, Append(map_calls, call))
               ELSE /\ mappings' = result.mappings
                    /\ map_calls' = Append(map_calls, call)
                    /\ port_mappings' = _mappings_to_dict(result.mappings, platform)
                    /\ Deliver(assign_remote_hct(
                           [port EXCEPT !.all_port_mappings = result.mappings.entry,
                                        !.has_mappings = TRUE],
                           port_mappings', platform))
                    /\ UNCHANGED << error, lib_vars, adapter_vars, port_index,
                                    number_of_remote_ports, remote_port_index, reported,
                                    stat_calls, number_of_entries, fixed_vars >>

\* _iter_ports is resumed after its yield: the next port of the adapter
ResumePortLoop ==
    /\ port_index' = port_index + 1
    /\ pc' = "ports"
    /\ ClearPort
    /\ map_calls' = <<>>
    /\ UNCHANGED << error, lib_vars, adapter_vars, yielded, fixed_vars >>

\* iter_port_mappings: one iteration of the loop over the rows of the port
FlattenEntry ==
    /\ pc = "flatten"
    /\ IF entry_index > Len(port.all_port_mappings)
       THEN ResumePortLoop
       ELSE LET entry == port.all_port_mappings[entry_index]
            IN /\ IF entry.PortWWN = <<>>
                  THEN /\ entry_index' = entry_index + 1
                       /\ UNCHANGED << pc, emitted >>
                  ELSE /\ emitted' = Append(emitted, mapping_tuple(port, entry))
                       /\ pc' = "yielded"
                       /\ UNCHANGED entry_index
               /\ map_calls' = <<>>
               /\ UNCHANGED << error, lib_vars, adapter_vars, port_index, port,
                               number_of_remote_ports, remote_port_index, reported,
                               stat_calls, number_of_entries, mappings, port_mappings,
                               yielded, fixed_vars >>

\* the consumer asks for the next value
ConsumerNext ==
    /\ pc = "yielded"
    /\ IF mode = "ports"
       THEN ResumePortLoop
       ELSE /\ entry_index' = entry_index + 1
            /\ pc' = "flatten"
            /\ UNCHANGED << error, lib_vars, adapter_vars, port_index, port_vars,
                            emitted, yielded, fixed_vars >>

\* the consumer closes the suspended generator: GeneratorExit is raised at
\* the yield and the finally clauses run
ConsumerClose ==
    /\ pc = "yielded"
    /\ pc' = "closed"
    /\ Unwind
    /\ ClearPort
    /\ map_calls' = <<>>
    /\ UNCHANGED << error, adapter_vars, port_index, yielded, fixed_vars >>

Next ==
    \/ LoadLibrary
    \/ GetNumberOfAdapters
    \/ OpenAdapter
    \/ ScanDone
    \/ GetAdapterAttributes
    \/ AdapterDone
    \/ GetPortAttributes
    \/ GetRemotePort
    \/ GetStatistics
    \/ GetMappingsCount
    \/ GetMappings
    \/ FlattenEntry
    \/ ConsumerNext
    \/ ConsumerClose

\* _merge_statistics applied to merge_in
MergeStatistics ==
    /\ pc = "merge"
    /\ IF _merge_statistics_raises(merge_in.hba_port_stats, merge_in.hba_fc4_stats)
       THEN /\ pc' = "aborted"
            /\ error' = AttributeError("_merge_statistics")
            /\ UNCHANGED merge_out
       ELSE /\ pc' = "merged"
            /\ merge_out' = _merge_statistics(merge_in.port_statistics,
                                              merge_in.hba_port_stats, merge_in.hba_fc4_stats)
            /\ UNCHANGED error
    /\ UNCHANGED << profile, mode, platform, merge_in, lib_vars, adapter_vars, port_index,
                    port_vars, out_vars >>

Spec == Init /\ [][Next]_vars

SpecMerge == InitMerge /\ [][MergeStatistics]_vars

SpecPort == InitPort /\ [][Next]_vars

(***************************************************************************)
(* Properties.                                                              *)
(***************************************************************************)

\* the local ports _iter_ports yields for the first n adapters, in order:
\* every port of every adapter whose attributes were retrieved
RECURSIVE PortsOfAdapters(_)
PortsOfAdapters(n) ==
    IF n = 0 THEN <<>>
    ELSE PortsOfAdapters(n - 1) \o
         (IF adapter_result[n - 1].status = "ok"
          THEN [p \in 1..adapter_result[n - 1].ports |-> <<n - 1, p - 1>>]
          ELSE <<>>)

\* C1 as stated: whatever the failure of an adapter's attribute retrieval,
\* the adapter is skipped and the scan does not abort there.
C1_AnyFailureSkipsAdapter ==
    \A a \in Adapters :
        adapter_result[a].status \notin {"none", "ok"} =>
            ~(pc = "aborted" /\ adapter_index = a
              /\ error.origin = "HBA_GetAdapterAttributes")

\* C1 amended: an adapter whose attribute retrieval fails with the "not
\* implemented" condition is skipped alone (its handle closed, none of its
\* ports yielded, the scan goes on with the next adapter); any other failure
\* of the retrieval aborts the scan at that adapter.  A scan that completes
\* has yielded every port of every other adapter, in index order.
C1_NotImplementedSkipsAdapter ==
    /\ \A a \in Adapters :
          adapter_result[a].status = "NotImplementedError" =>
              /\ adapter_index > a
              /\ closes[a] = 1
              /\ \A i \in 1..Len(yielded) : yielded[i][1] # a
    /\ \A a \in Adapters :
          adapter_result[a].status = "RuntimeError" =>
              /\ pc = "aborted"
              /\ adapter_index = a
              /\ error = RuntimeError("HBA_GetAdapterAttributes", HBA_STATUS_ERROR)
    /\ pc = "adapter" => yielded = PortsOfAdapters(adapter_index)
    /\ pc = "done" =>
          /\ yielded = PortsOfAdapters(number_of_adapters)
          /\ \A a \in 0..(number_of_adapters - 1) :
                adapter_result[a].status \in {"ok", "NotImplementedError"}

\* a completed scan of two adapters: the first skipped, every port of the
\* second yielded
C1_Witness ==
    /\ pc = "done"
    /\ number_of_adapters = 2
    /\ adapter_result[0].status = "NotImplementedError"
    /\ adapter_result[1] = [status |-> "ok", ports |-> MaxPorts]
    /\ yielded = [p \in 1..MaxPorts |-> <<1, p - 1>>]

IsWellKnown(fcid) == 16777205 <= fcid /\ fcid <= 16777214

KeptReply(remote_port_attributes) ==
    /\ ~IsWellKnown(remote_port_attributes.PortFcId)
    /\ remote_port_attributes.PortState # HBA_PORTSTATE_OFFLINE

\* C2: while and after the remote ports of a local port are fetched,
\* discovered_ports is exactly the reported remote ports, in order, whose
\* fcid is outside 0xFFFFF5..0xFFFFFE and whose state is not offline; no
\* well-known or offline port is ever in it.
C2_DiscoveredPorts ==
    /\ pc = "remote" =>
          LET kept == SelectSeq(reported, KeptReply)
          IN /\ Len(reported) = remote_port_index
             /\ port.discovered_ports =
                    [i \in 1..Len(kept) |-> get_port_object(NoAdapterAttributes, kept[i])]
    /\ \A i \in 1..Len(port.discovered_ports) :
          /\ ~IsWellKnown(port.discovered_ports[i].port_fcid)
          /\ port.discovered_ports[i].port_state # "offline"
    /\ \A i, j \in 1..Len(port.discovered_ports) :
          i < j => HexValue(port.discovered_ports[i].port_wwn)
                       < HexValue(port.discovered_ports[j].port_wwn)

\* two remote ports reported, the first offline and dropped, the second
\* (fcid just above the well-known range) kept
C2_Witness ==
    /\ pc = "remote"
    /\ remote_port_index = number_of_remote_ports
    /\ Len(reported) = 2
    /\ reported[1].PortState = HBA_PORTSTATE_OFFLINE
    /\ reported[1].PortFcId = 16777204
    /\ reported[2].PortFcId = 16777215
    /\ Len(port.discovered_ports) = 1
    /\ port.discovered_ports[1].port_wwn = translate_wwn(RemoteWWN(1))

\* the processing block of adapter a has been left
Exited(a) == adapter_index > a \/ pc \in {"done", "aborted", "closed"}

\* C3: every opened adapter handle is closed exactly once when its block is
\* left (and not before), the library is loaded before any adapter is opened,
\* and it is freed only once every opened handle is closed.
C3_HandleLifecycle ==
    /\ loaded <= 1 /\ freed <= loaded
    /\ \A a \in Adapters :
          /\ opens[a] <= 1
          /\ closes[a] <= opens[a]
          /\ opens[a] = 1 =>
                /\ loaded = 1
                /\ Exited(a) => closes[a] = 1
                /\ ~Exited(a) => closes[a] = 0 /\ freed = 0
    /\ freed = 1 => \A a \in Adapters : closes[a] = opens[a]
    /\ (pc \in {"done", "aborted", "closed"} /\ loaded = 1) => freed = 1

\* an error propagates from a port of the second adapter: both handles
\* closed once, the library freed
C3_Witness ==
    /\ pc = "aborted"
    /\ error.origin = "HBA_GetFcpTargetMappingV2"
    /\ adapter_index = 1
    /\ opens[0] = 1 /\ closes[0] = 1
    /\ opens[1] = 1 /\ closes[1] = 1
    /\ loaded = 1 /\ freed = 1

\* the local port has been returned by _get_local_port and handed on
Delivered == pc \in {"yielded", "flatten"}

\* C4: the zero-capacity call comes first; when it fails with "more data" it
\* is followed by exactly one call whose buffer holds exactly the entry count
\* of that reply, and no port sees a third call.
C4_ProbeThenOneSizedCall ==
    /\ Len(map_calls) <= 2
    /\ pc = "map_probe" => map_calls = <<>>
    /\ map_calls # <<>> => map_calls[1].capacity = 0
    /\ pc = "map_fetch" =>
          /\ Len(map_calls) = 1
          /\ map_calls[1].status = HBA_STATUS_ERROR_MORE_DATA =>
                number_of_entries = map_calls[1].NumberOfEntries
    /\ (pc \in {"yielded", "flatten", "aborted"} /\ map_calls # <<>>) => Len(map_calls) = 2
    /\ (Len(map_calls) = 2 /\ map_calls[1].status = HBA_STATUS_ERROR_MORE_DATA) =>
          map_calls[2].capacity = map_calls[1].NumberOfEntries

\* "more data" with MaxRows entries, then one call with room for MaxRows
\* rows, which the service fills
C4_Witness ==
    /\ pc = "yielded"
    /\ Len(map_calls) = 2
    /\ map_calls[1].status = HBA_STATUS_ERROR_MORE_DATA
    /\ map_calls[1].NumberOfEntries = MaxRows
    /\ map_calls[2].capacity = MaxRows
    /\ map_calls[2].status = HBA_STATUS_OK
    /\ Len(mappings.entry) = MaxRows

Recovered ==
    { HBA_STATUS_ERROR_ILLEGAL_WWN, HBA_STATUS_ERROR_NOT_SUPPORTED,
      HBA_STATUS_ERROR_MORE_DATA, HBA_STATUS_ERROR }

\* C5 as stated: whichever of the two calls fails, a failure with illegal
\* WWN, not supported, more data (second call) or the generic code gives an
\* empty table and the scan continues, and a failure with any other code
\* propagates unchanged.
C5_AnyFailureDecides ==
    Len(map_calls) = 2 =>
        \A i \in 1..2 :
            LET status == map_calls[i].status
            IN (status # HBA_STATUS_OK
                /\ ~(i = 1 /\ status = HBA_STATUS_ERROR_MORE_DATA)) =>
                   IF status \in Recovered
                   THEN Delivered /\ mappings = create_empty
                   ELSE /\ pc = "aborted"
                        /\ error = RuntimeError("HBA_GetFcpTargetMappingV2", status)

\* C5 amended: the outcome is decided by the sized (second) call alone.  Its
\* failure with illegal WWN, not supported, more data or the generic code
\* gives an empty table and the port is yielded; its failure with any other
\* code propagates unchanged.  A failure of the zero-capacity call with a
\* code other than "more data" never propagates: it counts as zero entries
\* and the sized call is still made.
C5_SizedCallDecides ==
    /\ pc = "map_fetch" =>
          /\ error = NoError
          /\ map_calls[1].status # HBA_STATUS_ERROR_MORE_DATA => number_of_entries = 0
    /\ Len(map_calls) = 2 =>
          LET status == map_calls[2].status
          IN /\ status \in Recovered =>
                   /\ Delivered
                   /\ error = NoError
                   /\ mappings = create_empty
                   /\ yielded[Len(yielded)] = <<adapter_index, port_index>>
             /\ status = HBA_STATUS_OK => Delivered /\ error = NoError
             /\ status \notin Recovered \cup {HBA_STATUS_OK} =>
                   /\ pc = "aborted"
                   /\ error = RuntimeError("HBA_GetFcpTargetMappingV2", status)

\* the zero-capacity call fails with "busy", the sized call with the generic
\* code: an empty table, the port yielded
C5_Witness ==
    /\ Delivered
    /\ Len(map_calls) = 2
    /\ map_calls[1].status = HBA_STATUS_ERROR_BUSY
    /\ map_calls[2].status = HBA_STATUS_ERROR
    /\ mappings = create_empty
    /\ error = NoError

\* the rows of the fetched table that carry the decoded WWN wwn
MatchingRows(wwn) ==
    { i \in 1..Len(mappings.entry) :
        /\ mappings.entry[i].PortWWN # <<>>
        /\ translate_wwn(mappings.entry[i].PortWWN) = wwn }

LastOf(S) == CHOOSE i \in S : \A j \in S : j <= i

\* C6: once the local port is returned, every kept remote port has
\* hct = (local hct[0], channel, target): on aix channel 0 and the target
\* the integer value of the remote WWN; elsewhere (-1, -1) when no row of
\* the table carries the remote WWN, else the bus number of the (last) row
\* that does with that row's target number (on solaris the integer value of
\* its WWN, as the lookup stores it).
C6_RemoteHct ==
    Delivered =>
        \A k \in 1..Len(port.discovered_ports) :
            LET remote_port == port.discovered_ports[k]
                host == port.hct[1]
                rows == MatchingRows(remote_port.port_wwn)
            IN IF platform = Aix
               THEN remote_port.hct = <<host, 0, HexValue(remote_port.port_wwn)>>
               ELSE IF rows = {}
               THEN remote_port.hct = <<host, -1, -1>>
               ELSE LET row == mappings.entry[LastOf(rows)]
                    IN remote_port.hct =
                         <<host, row.ScsiBusNumber,
                           IF platform = Solaris THEN HexValue(remote_port.port_wwn)
                           ELSE row.ScsiTargetNumber>>

\* host 3, two kept remote ports; both rows of the table carry the WWN of the
\* first (the second row wins), none that of the second
C6_Witness ==
    /\ Delivered
    /\ platform = Windows
    /\ port.hct[1] = 3
    /\ Len(port.discovered_ports) = 2
    /\ Len(mappings.entry) = 2
    /\ mappings.entry[1].PortWWN = RemoteWWN(0)
    /\ mappings.entry[2].PortWWN = RemoteWWN(0)
    /\ port.discovered_ports[1].hct = <<3, 1, 4>>
    /\ port.discovered_ports[2].hct = <<3, -1, -1>>

\* the native field each canonical counter is read from
SourceField(name) ==
    CASE name = <<"t","x","_","f","r","a","m","e","s">> -> <<"T","x","F","r","a","m","e","s">>
      [] name = <<"l","i","p","_","c","o","u","n","t">> -> <<"L","I","P","C","o","u","n","t">>
      [] name = <<"n","o","s","_","c","o","u","n","t">> -> <<"N","O","S","C","o","u","n","t">>
      [] name = <<"i","n","v","a","l","i","d","_","c","r","c","_","c","o","u","n","t">> -> <<"I","n","v","a","l","i","d","C","R","C","C","o","u","n","t">>
      [] name = <<"f","c","p","_","i","n","p","u","t","_","r","e","q","u","e","s","t","s">> -> <<"I","n","p","u","t","R","e","q","u","e","s","t","s">>
      [] name = <<"f","c","p","_","c","o","n","t","r","o","l","_","r","e","q","u","e","s","t","s">> -> <<"C","o","n","t","r","o","l","R","e","q","u","e","s","t","s">>

\* C7: _merge_statistics never fails and sets every canonical counter: an
\* fcp_ counter to the value of its field of the FCP record, -1 when that
\* record is absent; any other counter to the value of its field of the
\* link-level record, -1 when that record is absent (so all -1 when both are
\* absent, whatever the record held before).
C7_MergeStatistics ==
    /\ pc # "aborted"
    /\ pc = "merged" =>
          /\ Range(FC_PORT_STATISTICS) \subseteq DOMAIN merge_out
          /\ \A name \in Range(FC_PORT_STATISTICS) :
                LET source == IF StartsWith(name, <<"f", "c", "p", "_">>)
                              THEN merge_in.hba_fc4_stats ELSE merge_in.hba_port_stats
                IN merge_out[name] =
                       IF source.present THEN source.fields[SourceField(name)] ELSE -1

\* only the link-level record present, merged into a record that held
\* nothing: a zero count is kept, the FCP counters are -1
C7_Witness ==
    /\ pc = "merged"
    /\ merge_in.port_statistics = <<>>
    /\ merge_in.hba_port_stats.present
    /\ ~merge_in.hba_fc4_stats.present
    /\ merge_in.hba_port_stats.fields[<<"T","x","F","r","a","m","e","s">>] = 0
    /\ merge_in.hba_port_stats.fields[<<"L","I","P","C","o","u","n","t">>] = MaxStat
    /\ merge_out[<<"t","x","_","f","r","a","m","e","s">>] = 0
    /\ merge_out[<<"l","i","p","_","c","o","u","n","t">>] = MaxStat
    /\ merge_out[<<"f","c","p","_","i","n","p","u","t","_","r","e","q","u","e","s","t","s">>] = -1

\* C8: the link-level call is made first and the FCP call only after it
\* succeeded; no failure of either call aborts the scan; the statistics
\* attached to the port carry -1 in every counter of a record that was not
\* obtained, and the link-level values when only the FCP record is missing.
C8_StatisticsFetch ==
    /\ Len(stat_calls) <= 2
    /\ stat_calls # <<>> => stat_calls[1].call = "HBA_GetPortStatistics"
    /\ Len(stat_calls) = 1 => stat_calls[1].status # "ok"
    /\ Len(stat_calls) = 2 =>
          /\ stat_calls[1].status = "ok"
          /\ stat_calls[2].call = "HBA_GetFC4Statistics"
    /\ pc = "aborted" =>
          error.origin \notin {"HBA_GetPortStatistics", "HBA_GetFC4Statistics",
                               "_merge_statistics"}
    /\ pc \in {"map_probe", "map_fetch", "yielded", "flatten"} =>
          /\ stat_calls # <<>>
          /\ DOMAIN port.statistics = Range(FC_PORT_STATISTICS)
          /\ stat_calls[1].status # "ok" =>
                \A name \in Range(FC_PORT_STATISTICS) : port.statistics[name] = -1
          /\ (Len(stat_calls) = 2 /\ stat_calls[2].status # "ok") =>
                \A name \in Range(FC_PORT_STATISTICS) :
                    port.statistics[name] =
                        IF StartsWith(name, <<"f", "c", "p", "_">>) THEN -1
                        ELSE LinkRecord.fields[SourceField(name)]
    /\ Delivered => yielded[Len(yielded)] = <<adapter_index, port_index>>

\* a yielded port whose FCP statistics failed with a hard error
C8_Witness ==
    /\ pc = "yielded"
    /\ mode = "ports"
    /\ Len(stat_calls) = 2
    /\ stat_calls[2].status = "RuntimeError"
    /\ port.statistics[<<"f","c","p","_","i","n","p","u","t","_","r","e","q","u","e","s","t","s">>] = -1
    /\ port.statistics[<<"t","x","_","f","r","a","m","e","s">>] = 0
    /\ yielded[Len(yielded)] = <<adapter_index, port_index>>

HasWWN(entry) == entry.PortWWN # <<>>

\* the characters of a device name before its first NUL
RECURSIVE UpToNul(_)
UpToNul(s) == IF s = <<>> \/ Head(s) = Nul THEN <<>> ELSE <<Head(s)>> \o UpToNul(Tail(s))

\* C9: the keys of the WWN -> (bus, target) lookup are exactly the decoded
\* WWNs of the rows with a non-empty WWN, and the tuples iter_port_mappings
\* has yielded for the port are exactly those of the rows with a non-empty
\* WWN among the rows it has gone through, in order.
C9_EmptyRowsDiscarded ==
    Delivered =>
        /\ DOMAIN port_mappings =
              { translate_wwn(mappings.entry[i].PortWWN) :
                  i \in { j \in 1..Len(mappings.entry) : HasWWN(mappings.entry[j]) } }
        /\ mode = "mappings" =>
              LET visited == IF pc = "yielded" THEN entry_index ELSE entry_index - 1
                  rows == SelectSeq(SubSeq(mappings.entry, 1, visited), HasWWN)
              IN emitted =
                     [i \in 1..Len(rows) |->
                         << UpToNul(rows[i].OSDeviceName), port.port_wwn,
                            translate_wwn(rows[i].PortWWN), rows[i].ScsiOSLun >>]

\* a table of two rows, the first with an empty WWN: after both rows one
\* tuple and one key
C9_Witness ==
    /\ pc = "flatten"
    /\ mode = "mappings"
    /\ Len(mappings.entry) = 2
    /\ entry_index = 3
    /\ mappings.entry[1].PortWWN = <<>>
    /\ mappings.entry[2].PortWWN = RemoteWWN(0)
    /\ DOMAIN port_mappings = {translate_wwn(RemoteWWN(0))}
    /\ Len(emitted) = 1
    /\ emitted[1][3] = translate_wwn(RemoteWWN(0))

\* C10: a KeyError leaves get_port_object only for a port_state code that is
\* absent from its table; an absent port_type or port_speed code never
\* raises.
C10_OnlyPortStateIsFatal ==
    (pc = "aborted" /\ error.type = "KeyError") => error.origin = "port_state"

\* the adapters whose handle is open
OpenHandles == { a \in Adapters : opens[a] > closes[a] }

\* C11: at most one adapter handle is open at any time, and it is the handle
\* of the adapter being processed; adapters are opened in index order
\* 0..count-1, each at most once, and adapter k+1 is opened only after the
\* handle of adapter k is closed.  While a port of adapter k is held by the
\* consumer, exactly the handle of adapter k is open.
C11_OneHandleOpen ==
    /\ Cardinality(OpenHandles) <= 1
    /\ \A a \in OpenHandles :
          /\ a = adapter_index
          /\ pc \notin {"start", "enum", "adapter", "done", "aborted", "closed"}
    /\ \A a \in Adapters :
          opens[a] >= 1 =>
              /\ opens[a] = 1
              /\ a < number_of_adapters
              /\ a <= adapter_index
              /\ \A b \in 0..(a - 1) : opens[b] = 1 /\ closes[b] = 1
    /\ pc \in {"yielded", "flatten"} => OpenHandles = {adapter_index}

\* the scan is suspended on the first port of the second adapter: the first
\* handle was opened and closed, only the second is open
C11_Witness ==
    /\ pc = "yielded"
    /\ adapter_index = 1
    /\ yielded[Len(yielded)] = <<1, 0>>
    /\ opens[0] = 1 /\ closes[0] = 1
    /\ OpenHandles = {1}

====
